---- MODULE Spec2Model ----
(***************************************************************************)
(* State-machine model of the table view state engine of dioxus_ui:        *)
(*   - the selection engine   (components/table_view/use_select.rs)        *)
(*   - the focus engine       (components/table_view/use_focus.rs,         *)
(*                             components/table_view/use_focus_fn.rs)      *)
(*   - the sort engine        (components/table_view/use_sort.rs)          *)
(*   - the row/ID derivation  (components/table_view/use_table.rs)         *)
(*   - the debounce utility   (function/signal/use_debounce.rs)            *)
(*                                                                         *)
(* Option<T> is modelled as a sequence of length at most one:              *)
(* None = << >>, Some(x) = <<x>>.  A SetStateAction<T> is a record         *)
(* [kind, value, func]: kind "Value" carries value, kind "Function"        *)
(* carries the updater func as a TLA+ function of the previous value.      *)
(***************************************************************************)
EXTENDS Integers, Sequences, FiniteSets

VARIABLES
    \* ---- selection engine (use_select.rs) ----
    select_many,      \* use_select parameter
    changeable,       \* use_select parameter
    cancelable,       \* use_select parameter
    on_change,        \* TRUE iff an on_change callback was supplied
    select_init,      \* the value init() returns
    selected_ids,     \* the selected_ids signal
    \* ---- focus engine (use_focus.rs / use_focus_fn.rs) ----
    focus_init,       \* Option<FocusInit>, resolved
    focus_id,         \* the id_signal of use_focus
    \* ---- rows the orchestrator hands to the engines (use_table.rs) ----
    row_ids,          \* ids of sorted_data, in render order
    \* ---- observation of the most recent engine call ----
    last_call,
    \* ---- sort engine (use_sort.rs) ----
    data,             \* the caller's record array
    sort_init,        \* the value the sort init() returns
    order_entries,    \* the order_entries signal
    last_sort,        \* observation of the most recent sort-state call
    \* ---- debounce utility (use_debounce.rs) ----
    now,              \* the clock (Instant::now())
    count,            \* the count signal
    next_execution_time, \* the next_execution_time signal
    pending_callback, \* the pending_callback signal
    tasks,            \* the spawned tasks still asleep
    calls,            \* number of debounce calls made so far
    executed,         \* callback executions, in order
    superseded,       \* calls followed by another call before their own timer expired
    \* ---- focus functions (use_focus_fn.rs) ----
    fallback_render_index, \* the fallback_render_index signal
    \* ---- pagination engine (use_pagination.rs) ----
    pagination_init,  \* params.init
    disabled,         \* params.disabled, an Option<usize>
    internal_limit,   \* the internal_limit signal
    \* ---- virtual-scroll engine (use_virtual_scroll.rs) ----
    content_length,   \* params.content_length
    over_scan,        \* params.over_scan, resolved
    default_content_height_px, \* params.default_content_height_px
    height_map,       \* the height_map signal
    scrolled_px,      \* the scrolled_px signal
    last_virtualized  \* observation of the most recent get_virtualized call

selectVars == <<select_many, changeable, cancelable, on_change, select_init,
                selected_ids, focus_init, focus_id, row_ids, last_call>>
sortVars == <<data, sort_init, order_entries, last_sort>>
debounceVars == <<now, count, next_execution_time, pending_callback, tasks,
                  calls, executed, superseded>>
focusFnVars == <<fallback_render_index>>
pageVars == <<pagination_init, disabled, internal_limit>>
scrollVars == <<content_length, over_scan, default_content_height_px, height_map,
                scrolled_px, last_virtualized>>
vars == <<selectVars, sortVars, debounceVars, focusFnVars, pageVars, scrollVars>>

----------------------------------------------------------------------------
(* Bounds of the model *)

\* longest ID list a caller passes to set_ids, and longest selection explored
\* (the selection can grow without limit through duplicates)
MaxIdsLen == 2
\* largest number of rows in the table
MaxRows == 2
\* longest record array given to the sort engine
MaxDataLen == 3
\* the delay_ms given to use_debounce, in clock ticks
DelayMs == 2
\* number of debounce calls explored
MaxCalls == 3
\* last clock tick explored
MaxTime == 6
\* largest number of rows of a paginated table
MaxPageRows == 4
\* largest limit given to the pagination engine
MaxLimit == 2
\* largest page a caller asks set_page for
MaxPage == 2
\* largest content_length given to the virtual-scroll engine
MaxContentLength == 12
\* largest over_scan given to the virtual-scroll engine
MaxOverScan == 2
\* largest default_content_height_px, in pixels
MaxHeightPx == 2
\* largest scroll offset, in pixels
MaxScrollPx == 4
\* number of leading items whose element gets measured
MaxMeasured == 2
\* the width of usize in the model, in bits
UsizeBits == 4
\* largest number of rows of the table the orchestrator is followed on
MaxTableRows == 3

----------------------------------------------------------------------------
(* Generic helpers *)

None == << >>
Some(x) == <<x>>

Range(s) == {s[i] : i \in 1..Len(s)}

SeqsUpTo(S, n) == UNION {[1..k -> S] : k \in 0..n}

\* Vec::contains
Contains(s, x) == x \in Range(s)

\* iter().filter(|it| it != x).collect()
RECURSIVE Without(_, _)
Without(s, x) ==
    IF s = << >> THEN << >>
    ELSE IF Head(s) = x THEN Without(Tail(s), x)
         ELSE <<Head(s)>> \o Without(Tail(s), x)

\* The strings usize::to_string() produces for the indices of the model
IndexStrings == <<"0", "1", "2", "3", "4", "5", "6">>

\* index.to_string()
to_string(i) == IndexStrings[i + 1]

\* The record IDs of the model
Ids == {to_string(i) : i \in 0..(MaxRows - 1)}

ValueAction(v, f) == [kind |-> "Value", value |-> v, func |-> f]
FunctionAction(v, f) == [kind |-> "Function", value |-> v, func |-> f]

\* SetterUtils::to_value
ToValue(set_state_action, prev) ==
    IF set_state_action.kind = "Value"
    THEN set_state_action.value
    ELSE set_state_action.func[prev]

BoolIdentity == [b \in BOOLEAN |-> b]

\* Every SetStateAction<bool>: the two values and the four updaters
BoolActions ==
    {ValueAction(v, BoolIdentity) : v \in BOOLEAN}
    \cup {FunctionAction(FALSE, f) : f \in [BOOLEAN -> BOOLEAN]}

----------------------------------------------------------------------------
(* Selection engine: use_select.rs *)

\* next_raw.into_iter().take(1).collect()
Take1(s) == IF s = << >> THEN << >> ELSE <<Head(s)>>

\* set_selected_ids without the truncation: the list is taken as it is
TruncateNextKeepingAll(next_raw) == next_raw

\* The truncation of set_selected_ids (use_select.rs 60-64)
TruncateNext(next_raw) == IF select_many THEN next_raw ELSE Take1(next_raw)

\* the value of the selected_ids signal when on_change runs (use_select.rs
\* 82): the signal is written only afterwards (91)
SignalAtOnChange(current, next) == current

\* set_selected_ids with the early return dropped: the next list is stored
\* whatever on_change asked for
SetSelectedIdsIgnoringVeto(current, next_raw, veto) ==
    LET next == TruncateNext(next_raw)
        invoked == changeable /\ current # next /\ on_change
    IN  [ids |-> next,
         next |-> next,
         changed |-> current # next,
         invoked |-> invoked,
         uncommitted_at_on_change |->
             invoked /\ SignalAtOnChange(current, next) = current,
         prevent_default_called |-> invoked /\ veto,
         default_prevented |-> invoked /\ veto]

\* set_selected_ids (use_select.rs 50-97) applied to the computed next_raw.
\* veto: whether the on_change callback, if it is invoked, calls
\* prevent_default.  The result records what the call did.
SetSelectedIds(current, next_raw, veto) ==
    LET next == TruncateNext(next_raw)
        invoked == changeable /\ current # next /\ on_change
        should_return_early == invoked /\ veto
    IN  [ids |-> IF ~should_return_early THEN next ELSE current,
         next |-> next,
         changed |-> current # next,
         invoked |-> invoked,
         uncommitted_at_on_change |->
             invoked /\ SignalAtOnChange(current, next) = current,
         prevent_default_called |-> invoked /\ veto,
         default_prevented |-> should_return_early]

\* The updater set_by_id hands to set_selected_ids (use_select.rs 110-129)
SetByIdUpdater(id, set_state_action, prevs) ==
    LET prev == Contains(prevs, id)
        next == ToValue(set_state_action, prev)
    IN  IF prev = next THEN prevs
        ELSE IF ~cancelable /\ prev THEN prevs
        ELSE IF next THEN <<id>> \o prevs
        ELSE Without(prevs, id)

\* toggle_by_id's with_mut body (use_select.rs 156-168)
ToggleByIdResult(id, prev_ids) ==
    LET prev == Contains(prev_ids, id)
    IN  IF ~cancelable /\ prev THEN prev_ids
        ELSE IF prev THEN Without(prev_ids, id)
        ELSE <<id>> \o prev_ids

\* What the most recent engine call did.  changed: the computed next list
\* differed from the current one; prevent_default_called: on_change called
\* prevent_default; stored_next: the list stored when the call
\* returned is the computed next list; invoked: on_change was called;
\* uncommitted_at_on_change: the signal still held the pre-call list while
\* on_change ran; default_prevented: the SelectResult returned; forwarded: a
\* focus call forwarded a selection update.
NoCall == [op |-> "none", changed |-> FALSE, stored_next |-> FALSE,
           invoked |-> FALSE, uncommitted_at_on_change |-> FALSE,
           prevent_default_called |-> FALSE,
           default_prevented |-> FALSE, forwarded |-> FALSE]

DirectCall(op) == [NoCall EXCEPT !.op = op]

SelectCall(op, r) == [op |-> op,
                      changed |-> r.changed, stored_next |-> r.ids = r.next,
                      invoked |-> r.invoked,
                      uncommitted_at_on_change |-> r.uncommitted_at_on_change,
                      prevent_default_called |-> r.prevent_default_called,
                      default_prevented |-> r.default_prevented,
                      forwarded |-> FALSE]

\* the choices an on_change callback has when set_selected_ids is about to
\* store next_raw: it can call prevent_default only if it is invoked
Vetoes(next_raw) ==
    IF SetSelectedIds(selected_ids, next_raw, TRUE).invoked THEN BOOLEAN ELSE {FALSE}

selectConfig == <<select_many, changeable, cancelable, on_change, select_init,
                  focus_init, row_ids>>

\* set_ids with a Value action
SetIds(ids, veto) ==
    LET r == SetSelectedIds(selected_ids, ids, veto)
    IN  /\ selected_ids' = r.ids
        /\ Len(selected_ids') <= MaxIdsLen
        /\ last_call' = SelectCall("set_ids", r)
        /\ UNCHANGED <<selectConfig, focus_id, sortVars, debounceVars, focusFnVars, pageVars, scrollVars>>

\* set_by_id(id)(set_state_action)
SetById(id, set_state_action, veto) ==
    LET r == SetSelectedIds(selected_ids,
                            SetByIdUpdater(id, set_state_action, selected_ids), veto)
    IN  /\ selected_ids' = r.ids
        /\ Len(selected_ids') <= MaxIdsLen
        /\ last_call' = SelectCall("set_by_id", r)
        /\ UNCHANGED <<selectConfig, focus_id, sortVars, debounceVars, focusFnVars, pageVars, scrollVars>>

\* unset_all (use_select.rs 144-150)
UnsetAll(veto) ==
    LET r == SetSelectedIds(selected_ids, << >>, veto)
    IN  /\ selected_ids' = r.ids
        /\ Len(selected_ids') <= MaxIdsLen
        /\ last_call' = SelectCall("unset_all", r)
        /\ UNCHANGED <<selectConfig, focus_id, sortVars, debounceVars, focusFnVars, pageVars, scrollVars>>

\* toggle_by_id (use_select.rs 152-170)
ToggleById(id) ==
    /\ selected_ids' = ToggleByIdResult(id, selected_ids)
    /\ Len(selected_ids') <= MaxIdsLen
    /\ last_call' = DirectCall("toggle_by_id")
    /\ UNCHANGED <<selectConfig, focus_id, sortVars, debounceVars, focusFnVars, pageVars, scrollVars>>

\* the selection's init (use_select.rs 135-142)
SelectInit ==
    /\ selected_ids' = select_init
    /\ last_call' = DirectCall("select_init")
    /\ UNCHANGED <<selectConfig, focus_id, sortVars, debounceVars, focusFnVars, pageVars, scrollVars>>

----------------------------------------------------------------------------
(* Index <-> ID lookups the orchestrator supplies: use_table.rs 315-331 *)

\* position of the first row whose id is id, as an Option<usize>
RECURSIVE FirstIndexOf(_, _, _)
FirstIndexOf(ids, id, from) ==
    IF from > Len(ids) THEN None
    ELSE IF ids[from] = id THEN Some(from - 1)
    ELSE FirstIndexOf(ids, id, from + 1)

\* get_render_index_from_id (use_table.rs 315-322)
get_render_index_from_id(opt_id) ==
    IF opt_id = None THEN None ELSE FirstIndexOf(row_ids, opt_id[1], 1)

\* get_id_from_render_index (use_table.rs 324-331)
get_id_from_render_index(opt_index) ==
    IF opt_index = None THEN None
    ELSE IF opt_index[1] < Len(row_ids) THEN Some(row_ids[opt_index[1] + 1])
    ELSE None

----------------------------------------------------------------------------
(* keep_select_by_removed_ids: use_table.rs 442-484 *)

\* sorted_data without the removed rows (use_table.rs 454-462)
RECURSIVE RemovedResult(_, _)
RemovedResult(ids, removed_ids) ==
    IF ids = << >> THEN << >>
    ELSE IF Head(ids) \in removed_ids THEN RemovedResult(Tail(ids), removed_ids)
         ELSE <<Head(ids)>> \o RemovedResult(Tail(ids), removed_ids)

\* the mapping of a previously selected id without the neighbour by position:
\* an id that is removed maps to no row
KeepNextItemWithoutNeighbour(id, removed_result) ==
    IF Contains(removed_result, id) THEN Some(id) ELSE None

\* the mapping of a previously selected id by position alone: a surviving id
\* is not kept as it is but mapped like a removed one
KeepNextItemByPositionOnly(id, removed_result) ==
    LET prev_render_index == get_render_index_from_id(Some(id))
    IN  IF prev_render_index # None /\ prev_render_index[1] < Len(removed_result)
        THEN Some(removed_result[prev_render_index[1] + 1])
        ELSE None

\* the row a previously selected id maps to (use_table.rs 466-472)
KeepNextItem(id, removed_result) ==
    LET prev_render_index == get_render_index_from_id(Some(id))
    IN  IF Contains(removed_result, id) THEN Some(id)
        ELSE IF prev_render_index # None /\ prev_render_index[1] < Len(removed_result)
             THEN Some(removed_result[prev_render_index[1] + 1])
        ELSE None

\* the filter_map over prev_ids (use_table.rs 464-474)
RECURSIVE KeepNextIds(_, _)
KeepNextIds(prev_ids, removed_result) ==
    IF prev_ids = << >> THEN << >>
    ELSE KeepNextItem(Head(prev_ids), removed_result)
         \o KeepNextIds(Tail(prev_ids), removed_result)

\* the updater keep_select_by_removed_ids hands to set_ids (use_table.rs 453-481)
KeepSelectUpdater(removed_ids, prev_ids) ==
    LET removed_result == RemovedResult(row_ids, removed_ids)
        next_ids == KeepNextIds(prev_ids, removed_result)
    IN  IF next_ids = << >> /\ prev_ids # << >> /\ removed_result # << >>
        THEN <<removed_result[Len(removed_result)]>>
        ELSE next_ids

\* keep_select_by_removed_ids(removed_ids)
KeepSelectByRemovedIds(removed_ids, veto) ==
    LET r == SetSelectedIds(selected_ids,
                            KeepSelectUpdater(removed_ids, selected_ids), veto)
    IN  /\ selected_ids' = r.ids
        /\ Len(selected_ids') <= MaxIdsLen
        /\ last_call' = SelectCall("keep_select_by_removed_ids", r)
        /\ UNCHANGED <<selectConfig, focus_id, sortVars, debounceVars, focusFnVars, pageVars, scrollVars>>

----------------------------------------------------------------------------
(* Focus engine: use_focus.rs, use_focus_fn.rs *)

\* focus_by_id_fn (use_focus_fn.rs 225-260) for an already resolved next_id,
\* reached through the operation op.
\* with_select is the Option<SetStateAction<bool>> of FocusByIdOptions.
\* The updater handed to select_by_id (245-249) stores next_id as the focus ID
\* when set_by_id evaluates it (use_select.rs 112), which happens before
\* set_selected_ids consults on_change.
FocusByIdVia(op, next_id, with_select, veto) ==
    LET ws == IF with_select = None THEN ValueAction(~select_many, BoolIdentity)
              ELSE with_select[1]
        forwarded == ~(ws.kind = "Value" /\ ws.value = FALSE) /\ next_id # None
        r == SetSelectedIds(selected_ids,
                            SetByIdUpdater(next_id[1], ws, selected_ids), veto)
        focus_after_updater == next_id
    IN  IF forwarded
        THEN /\ selected_ids' = r.ids
             /\ Len(selected_ids') <= MaxIdsLen
             /\ focus_id' = IF r.default_prevented THEN focus_after_updater
                            ELSE next_id
             /\ last_call' = [SelectCall(op, r) EXCEPT !.forwarded = TRUE]
             /\ UNCHANGED <<selectConfig, sortVars, debounceVars, pageVars, scrollVars>>
        ELSE /\ focus_id' = next_id
             /\ last_call' = DirectCall(op)
             /\ UNCHANGED <<selectConfig, selected_ids, sortVars, debounceVars,
                            pageVars, scrollVars>>

\* focus_by_id_fn called directly: the fallback render index stays as it is
FocusById(next_id, with_select, veto) ==
    /\ FocusByIdVia("focus_by_id", next_id, with_select, veto)
    /\ UNCHANGED focusFnVars

\* the choices of the on_change callback during a focus call: it can call
\* prevent_default only if the call forwards a selection update that invokes it
FocusVetoes(next_id, with_select) ==
    LET ws == IF with_select = None THEN ValueAction(~select_many, BoolIdentity)
              ELSE with_select[1]
    IN  IF ~(ws.kind = "Value" /\ ws.value = FALSE) /\ next_id # None
        THEN Vetoes(SetByIdUpdater(next_id[1], ws, selected_ids))
        ELSE {FALSE}

\* focus.set_by_id with a Value action
FocusSetById(next_id, with_select, veto) == FocusById(next_id, with_select, veto)

\* the focus init (use_focus.rs 94-102)
FocusInit ==
    /\ focus_id' = IF focus_init # None THEN focus_init ELSE focus_id
    /\ last_call' = DirectCall("focus_init")
    /\ UNCHANGED <<selectConfig, selected_ids, sortVars, debounceVars, focusFnVars, pageVars, scrollVars>>


----------------------------------------------------------------------------
(* Sort engine: use_sort.rs *)

\* ORDERS (use_sort.rs 11), as a 0-based table
ORDERS == <<"none", "asc", "desc">>

Orders == Range(ORDERS)

\* the column keys of the model
Keys == {"a", "b", "c"}

\* the values a record field takes
FieldValues == 0..1

\* the caller's records
Records == [a : FieldValues, b : FieldValues]

\* the value column key shows of a record: columns a and b show a field,
\* column c a total of the two
ColumnValue(key, record) ==
    IF key = "a" THEN record.a
    ELSE IF key = "b" THEN record.b
    ELSE record.a + record.b

\* asc_sorter_map[key](prev, next): std::cmp::Ordering of the column values
AscSorter(key, x, y) ==
    IF ColumnValue(key, x) < ColumnValue(key, y) THEN "Less"
    ELSE IF ColumnValue(key, x) > ColumnValue(key, y) THEN "Greater"
    ELSE "Equal"

\* Ordering::reverse
Reverse(ordering) ==
    IF ordering = "Less" THEN "Greater"
    ELSE IF ordering = "Greater" THEN "Less"
    ELSE "Equal"

\* the comparator closure of one pass (use_sort.rs 241-248)
PassCompare(key, order, prev, next) ==
    LET asc_sort_result == AscSorter(key, prev.data, next.data)
    IN  IF order = "asc" THEN asc_sort_result
        ELSE IF order = "desc" THEN Reverse(asc_sort_result)
        ELSE "Equal"

\* slice::sort_by is a stable sort: each element goes behind the elements
\* that do not compare Greater than it
RECURSIVE StableInsert(_, _, _, _)
StableInsert(sorted, x, key, order) ==
    IF sorted = << >> THEN <<x>>
    ELSE IF PassCompare(key, order, Head(sorted), x) = "Greater"
         THEN <<x>> \o sorted
         ELSE <<Head(sorted)>> \o StableInsert(Tail(sorted), x, key, order)

RECURSIVE SortByFrom(_, _, _, _)
SortByFrom(sorted, rest, key, order) ==
    IF rest = << >> THEN sorted
    ELSE SortByFrom(StableInsert(sorted, Head(rest), key, order), Tail(rest),
                    key, order)

\* SeqReverse(s): s back to front
SeqReverse(s) == [i \in 1..Len(s) |-> s[Len(s) + 1 - i]]

\* one pass in which desc is an ascending sort followed by a reversal of the
\* whole list
SortPassDescByReversal(with_index, key, order) ==
    IF order = "desc"
    THEN SeqReverse(SortByFrom(<< >>, with_index, key, "asc"))
    ELSE SortByFrom(<< >>, with_index, key, order)

\* with_index.sort_by(...) of one pass (use_sort.rs 241-248)
SortPass(with_index, key, order) == SortByFrom(<< >>, with_index, key, order)

\* the loop over sort_order_entries (use_sort.rs 235-250)
RECURSIVE SortPasses(_, _)
SortPasses(with_index, sort_order_entries) ==
    IF sort_order_entries = << >> THEN with_index
    ELSE LET key == Head(sort_order_entries)[1]
             order == Head(sort_order_entries)[2]
         IN  IF order = "none"
             THEN SortPasses(with_index, Tail(sort_order_entries))
             ELSE SortPasses(SortPass(with_index, key, order),
                             Tail(sort_order_entries))

\* get_sorted_with_index_fn (use_sort.rs 220-253)
get_sorted_with_index_fn(sort_order_entries, records) ==
    SortPasses([i \in 1..Len(records) |-> [data |-> records[i], index |-> i - 1]],
               sort_order_entries)

\* sorted_with_index (use_sort.rs 107-111)
sorted_with_index == get_sorted_with_index_fn(order_entries, data)

\* sorted_indices (use_sort.rs 112)
sorted_indices == [i \in 1..Len(sorted_with_index) |-> sorted_with_index[i].index]

\* get_sorted_by_indices (use_sort.rs 196-204) applied to the caller's data
sorted_items == [i \in 1..Len(sorted_indices) |-> data[sorted_indices[i] + 1]]

\* params.data.iter().position(|x| x == item) (use_table.rs 307)
RECURSIVE Position(_, _, _)
Position(records, item, from) ==
    IF from > Len(records) THEN None
    ELSE IF records[from] = item THEN Some(from - 1)
    ELSE Position(records, item, from + 1)

\* the default get_data_id (use_table.rs 248-250)
get_data_id(item, index) == to_string(index)

\* sorted_data (use_table.rs 301-312)
sorted_data ==
    [i \in 1..Len(sorted_items) |->
        LET render_index == i - 1
            item == sorted_items[i]
            position == Position(data, item, 1)
        IN  [get |-> item,
             id |-> get_data_id(item, render_index),
             data_index |-> IF position # None THEN position[1] ELSE render_index,
             render_index |-> render_index]]

\* the order of key in the entries, none if absent (use_sort.rs 120-124)
RECURSIVE PrevOrder(_, _)
PrevOrder(prev_orders, key) ==
    IF prev_orders = << >> THEN "none"
    ELSE IF Head(prev_orders)[1] = key THEN Head(prev_orders)[2]
    ELSE PrevOrder(Tail(prev_orders), key)

\* prev_orders.iter().filter(|(it_key, _)| it_key != &key)
RECURSIVE OtherEntries(_, _)
OtherEntries(prev_orders, key) ==
    IF prev_orders = << >> THEN << >>
    ELSE IF Head(prev_orders)[1] = key THEN OtherEntries(Tail(prev_orders), key)
    ELSE <<Head(prev_orders)>> \o OtherEntries(Tail(prev_orders), key)

\* the same entries with every order reset (use_sort.rs 159)
ResetOrders(entries) == [i \in 1..Len(entries) |-> <<entries[i][1], "none">>]

\* the order the last entry with key k holds (HashMap::from_iter keeps the
\* value inserted last)
RECURSIVE LastOrder(_, _, _)
LastOrder(entries, k, found) ==
    IF entries = << >> THEN found
    ELSE LastOrder(Tail(entries), k,
                   IF Head(entries)[1] = k THEN Head(entries)[2] ELSE found)

\* Objects::from_entries (objects.rs 28-33): the HashMap of a list of entries
from_entries(entries) ==
    [k \in {entries[i][1] : i \in 1..Len(entries)} |-> LastOrder(entries, k, "none")]

\* Objects::entries (objects.rs 21-26): the entries of a HashMap, in the
\* iteration order of the map, which is any order
entries_of(map) ==
    LET pairs == {<<k, map[k]>> : k \in DOMAIN map}
    IN  {s \in [1..Cardinality(pairs) -> pairs] : Range(s) = pairs}

\* the HashMap<K, Order> values of the model
OrderMaps == UNION {[S -> Orders] : S \in SUBSET Keys}

\* the updater that keeps the map
MapIdentity == [m \in OrderMaps |-> m]

\* the updater that resets every order of the map
MapReset == [m \in OrderMaps |-> [k \in DOMAIN m |-> "none"]]

\* the maps a caller passes to set_order_map by value
MapValues ==
    {from_entries(<< >>),
     from_entries(<< <<"a", "asc">> >>),
     from_entries(<< <<"a", "asc">>, <<"b", "desc">> >>),
     from_entries(<< <<"a", "desc">>, <<"b", "none">>, <<"c", "asc">> >>)}

\* the SetStateAction<HashMap<K, Order>> values of the model
MapActions ==
    {ValueAction(m, MapIdentity) : m \in MapValues}
    \cup {FunctionAction(from_entries(<< >>), f) : f \in {MapIdentity, MapReset}}

\* the lists set_order_map can store (use_sort.rs 95-103)
SetOrderMapResults(prev_orders, set_state_action) ==
    entries_of(ToValue(set_state_action, from_entries(prev_orders)))

\* set_order with the filter of the previous entries dropped: the entry of
\* the key stays in the list behind the new one
SetOrderKeepingOldEntry(prev_orders, key, set_state_action) ==
    LET next_order == ToValue(set_state_action, PrevOrder(prev_orders, key))
    IN  <<<<key, next_order>>>> \o prev_orders

\* set_order placing the upserted entry at the back of the list
SetOrderAppending(prev_orders, key, set_state_action) ==
    LET next_order == ToValue(set_state_action, PrevOrder(prev_orders, key))
    IN  OtherEntries(prev_orders, key) \o <<<<key, next_order>>>>

\* the list set_order stores (use_sort.rs 119-135)
SetOrderResult(prev_orders, key, set_state_action) ==
    LET next_order == ToValue(set_state_action, PrevOrder(prev_orders, key))
    IN  <<<<key, next_order>>>> \o OtherEntries(prev_orders, key)

\* set_order_once without the reset of the other entries
SetOrderOnceKeepingOrders(prev_orders, key, set_state_action) ==
    LET next_order == ToValue(set_state_action, PrevOrder(prev_orders, key))
    IN  <<<<key, next_order>>>> \o OtherEntries(prev_orders, key)

\* the list set_order_once stores (use_sort.rs 146-162)
SetOrderOnceResult(prev_orders, key, set_state_action) ==
    LET next_order == ToValue(set_state_action, PrevOrder(prev_orders, key))
    IN  <<<<key, next_order>>>> \o ResetOrders(OtherEntries(prev_orders, key))

\* the index of an order in ORDERS (use_sort.rs 176-180)
OrderIndex(order) == IF order = "none" THEN 0 ELSE IF order = "asc" THEN 1 ELSE 2

\* the updater of shift_order with the index saturating at the end of ORDERS
\* instead of wrapping around
ShiftUpdaterSaturating(set_state_action) ==
    [prev_order \in Orders |->
        LET next_index_raw == ToValue(set_state_action, OrderIndex(prev_order))
            next_index == IF next_index_raw >= Len(ORDERS) THEN Len(ORDERS) - 1
                          ELSE next_index_raw
        IN  ORDERS[next_index + 1]]

\* the updater shift_order hands to set_order (use_sort.rs 175-184)
ShiftUpdater(set_state_action) ==
    [prev_order \in Orders |->
        LET next_index_raw == ToValue(set_state_action, OrderIndex(prev_order))
            next_index == next_index_raw % Len(ORDERS)
        IN  ORDERS[next_index + 1]]

OrderIdentity == [o \in Orders |-> o]

\* none -> asc -> desc -> none
OrderCycle == [o \in Orders |-> ORDERS[((OrderIndex(o) + 1) % Len(ORDERS)) + 1]]

\* the SetStateAction<Order> values of the model: every value, and the
\* updaters that keep and that cycle the order
OrderActions ==
    {ValueAction(o, OrderIdentity) : o \in Orders}
    \cup {FunctionAction("none", f) : f \in {OrderIdentity, OrderCycle}}

IndexIdentity == [i \in 0..(Len(ORDERS) - 1) |-> i]

\* the SetStateAction<usize> values of the model: every index up to one past
\* the table, and the updaters that advance the index by one and by two
IndexActions ==
    {ValueAction(i, IndexIdentity) : i \in 0..Len(ORDERS)}
    \cup {FunctionAction(0, [i \in 0..(Len(ORDERS) - 1) |-> i + n]) : n \in 1..2}

\* what the most recent sort-state call did: the operation, the key it was
\* called for and the order that key holds in the list the call stored
SortCall(op, key, entries) ==
    [op |-> op, key |-> key, order |-> PrevOrder(entries, key)]

sortConfig == <<data, sort_init>>

\* set_order(key)(set_state_action) (use_sort.rs 114-139)
SetOrder(key, set_state_action) ==
    /\ order_entries' = SetOrderResult(order_entries, key, set_state_action)
    /\ last_sort' = SortCall("set_order", key, order_entries')
    /\ UNCHANGED <<sortConfig, selectVars, debounceVars, focusFnVars, pageVars, scrollVars>>

\* set_order_once(key)(set_state_action) (use_sort.rs 141-166)
SetOrderOnce(key, set_state_action) ==
    /\ order_entries' = SetOrderOnceResult(order_entries, key, set_state_action)
    /\ last_sort' = SortCall("set_order_once", key, order_entries')
    /\ UNCHANGED <<sortConfig, selectVars, debounceVars, focusFnVars, pageVars, scrollVars>>

\* shift_order(key)(set_state_action) (use_sort.rs 168-187)
ShiftOrder(key, set_state_action) ==
    /\ order_entries' =
          SetOrderResult(order_entries, key,
                         FunctionAction("none", ShiftUpdater(set_state_action)))
    /\ last_sort' = SortCall("shift_order", key, order_entries')
    /\ UNCHANGED <<sortConfig, selectVars, debounceVars, focusFnVars, pageVars, scrollVars>>

\* set_order_map(set_state_action) (use_sort.rs 92-105)
SetOrderMap(set_state_action, next_orders) ==
    /\ next_orders \in SetOrderMapResults(order_entries, set_state_action)
    /\ order_entries' = next_orders
    /\ last_sort' = [op |-> "set_order_map", key |-> "", order |-> "none"]
    /\ UNCHANGED <<sortConfig, selectVars, debounceVars, focusFnVars, pageVars, scrollVars>>

\* the sort init (use_sort.rs 189-195)
SortInit ==
    /\ order_entries' = sort_init
    /\ last_sort' = [op |-> "init", key |-> "", order |-> "none"]
    /\ UNCHANGED <<sortConfig, selectVars, debounceVars, focusFnVars, pageVars, scrollVars>>

----------------------------------------------------------------------------
(* Focus by render index: use_focus_fn.rs 145-167, 264-300, 350-357 *)

\* get_fallbacked_render_index (use_focus_fn.rs 156-160)
get_fallbacked_render_index(opt_index) ==
    IF opt_index # None THEN opt_index[1] ELSE fallback_render_index

\* get_fallbacked_id (use_focus_fn.rs 162-167)
get_fallbacked_id(opt_id) ==
    IF opt_id # None THEN opt_id
    ELSE get_id_from_render_index(Some(fallback_render_index))

\* get_molded_index (use_focus_fn.rs 351-357)
get_molded_index(min, raw, max_plus_one) ==
    IF max_plus_one = 0 THEN min
    ELSE LET capped == IF raw < max_plus_one - 1 THEN raw ELSE max_plus_one - 1
         IN  IF min > capped THEN min ELSE capped

\* max_render_index as use_table passes it (use_table.rs 417)
max_render_index == Len(row_ids)

\* usize::MAX
UsizeMax == 2^UsizeBits - 1

\* prev_render_index as the updater of focus_by_render_index_fn sees it
\* (use_focus_fn.rs 231, 283)
UpdaterPrevRenderIndex ==
    get_fallbacked_render_index(get_render_index_from_id(get_fallbacked_id(focus_id)))

\* the render index the updater of focus_by_render_index_fn resolves
\* (use_focus_fn.rs 283-291); fallback and molded are the resolved options
NextRenderIndex(set_state_action, molded) ==
    LET prev_id == get_fallbacked_id(focus_id)
        prev_render_index ==
            get_fallbacked_render_index(get_render_index_from_id(prev_id))
        raw == ToValue(set_state_action, prev_render_index)
    IN  IF molded THEN get_molded_index(0, raw, max_render_index) ELSE raw

\* focus_by_render_index_fn (use_focus_fn.rs 264-300), reached through the
\* operation op.  opt_fallback and opt_molded are the Option<bool> fields of
\* FocusByRenderIndexOptions, with_select the one of its base options.
FocusByRenderIndexVia(op, set_state_action, opt_fallback, opt_molded, with_select, veto) ==
    LET fallback == IF opt_fallback = None THEN FALSE ELSE opt_fallback[1]
        molded == IF opt_molded = None THEN ~fallback ELSE opt_molded[1]
        next_render_index == NextRenderIndex(set_state_action, molded)
        next_id == get_id_from_render_index(Some(next_render_index))
    IN  /\ fallback_render_index' =
              IF fallback THEN next_render_index ELSE fallback_render_index
        /\ FocusByIdVia(op, next_id, with_select, veto)

\* the veto choices of the on_change callback during such a call
FocusByRenderIndexVetoes(set_state_action, opt_fallback, opt_molded, with_select) ==
    LET fallback == IF opt_fallback = None THEN FALSE ELSE opt_fallback[1]
        molded == IF opt_molded = None THEN ~fallback ELSE opt_molded[1]
    IN  FocusVetoes(get_id_from_render_index(
                        Some(NextRenderIndex(set_state_action, molded))),
                    with_select)

\* focus.set_by_render_index(set_state_action, options)
FocusSetByRenderIndex(set_state_action, opt_fallback, opt_molded, veto) ==
    FocusByRenderIndexVia("focus_by_render_index", set_state_action,
                          opt_fallback, opt_molded, None, veto)

\* focus.set_by_render_index with an updater whose usize arithmetic overflows,
\* in a build with overflow checks: the updater panics where focus_by_id_fn
\* evaluates it (use_focus_fn.rs 232, 285), before any signal is written, and
\* the call never returns
FocusSetByRenderIndexPanics ==
    /\ UpdaterPrevRenderIndex = 0
    /\ last_call' = DirectCall("panicked")
    /\ UNCHANGED <<selectConfig, selected_ids, focus_id, sortVars, debounceVars,
                   focusFnVars, pageVars, scrollVars>>

----------------------------------------------------------------------------
(* Pagination engine: use_pagination.rs, use_pagination_fn.rs *)

\* focused_render_index as use_table derives it (use_table.rs 352)
focused_render_index == get_render_index_from_id(focus_id)

\* the limit with the internal limit taken even when a disabled limit is set
LimitOfInternalFirst(opt_disabled, internal) == internal

\* the limit of use_pagination for a disabled limit and an internal limit
\* (use_pagination.rs 83)
LimitOf(opt_disabled, internal) ==
    IF opt_disabled # None THEN opt_disabled[1] ELSE internal

\* the page with the division rounded up instead of down
PageOfRoundedUp(limit, opt_focused_index) ==
    LET focused_index == IF opt_focused_index = None THEN 0 ELSE opt_focused_index[1]
    IN  IF limit = 0 THEN 0 ELSE (focused_index + limit - 1) \div limit

\* current_page (use_pagination.rs 86-93)
PageOf(limit, opt_focused_index) ==
    LET focused_index == IF opt_focused_index = None THEN 0 ELSE opt_focused_index[1]
    IN  IF limit = 0 THEN 0 ELSE focused_index \div limit

\* offset (use_pagination.rs 96)
OffsetOf(limit, opt_focused_index) == PageOf(limit, opt_focused_index) * limit

\* max_page_fn (use_pagination.rs 115-123)
MaxPageOf(limit, max_index) ==
    IF limit = 0 THEN 0 ELSE max_index \div limit

\* the fields of UsePaginationResult in the current state
pagination_limit == LimitOf(disabled, internal_limit)
pagination_page == PageOf(pagination_limit, focused_render_index)
pagination_offset == OffsetOf(pagination_limit, focused_render_index)
pagination_disabled == disabled # None
max_page(max_index) == MaxPageOf(pagination_limit, max_index)

\* set_limit (use_pagination.rs 108-113)
SetLimit(new_limit) ==
    /\ internal_limit' = new_limit
    /\ last_call' = DirectCall("set_limit")
    /\ UNCHANGED <<selectConfig, selected_ids, focus_id, pagination_init, disabled,
                   focusFnVars, sortVars, debounceVars, scrollVars>>

\* the pagination init (use_pagination.rs 99-105)
PaginationInit ==
    /\ internal_limit' = pagination_init
    /\ last_call' = DirectCall("pagination_init")
    /\ UNCHANGED <<selectConfig, selected_ids, focus_id, pagination_init, disabled,
                   focusFnVars, sortVars, debounceVars, scrollVars>>

\* the render indices and pages the updaters of the model are applied to
RenderIndices == 0..(Len(IndexStrings) + 1)

\* set_page with its updater left out: the requested page is handed to the
\* focus engine as if it were a render index
SetPageUpdaterPageAsIndex(set_state_action) ==
    [prev_render_index \in RenderIndices |->
        LET prev_page == IF pagination_limit = 0 THEN 0
                         ELSE prev_render_index \div pagination_limit
        IN  ToValue(set_state_action, prev_page)]

\* the updater set_page_fn hands to set_focus_by_render_index
\* (use_pagination_fn.rs 133-150)
SetPageUpdater(set_state_action) ==
    [prev_render_index \in RenderIndices |->
        LET prev_page == IF pagination_limit = 0 THEN 0
                         ELSE prev_render_index \div pagination_limit
            next_page == ToValue(set_state_action, prev_page)
        IN  IF pagination_limit = 0 THEN 0
            ELSE next_page * pagination_limit
                 + (prev_render_index % pagination_limit)]

\* set_page_fn (use_pagination_fn.rs 124-160)
SetPage(set_state_action, veto) ==
    FocusByRenderIndexVia("set_page",
                          FunctionAction(0, SetPageUpdater(set_state_action)),
                          None, None, None, veto)

\* the veto choices of the on_change callback during set_page
SetPageVetoes(set_state_action) ==
    FocusByRenderIndexVetoes(FunctionAction(0, SetPageUpdater(set_state_action)),
                             None, None, None)

\* the focus functions of a table nobody has focused by index
FocusFnIdle == fallback_render_index = 0

\* the pagination engine of use_table's defaults (use_table.rs 356)
PageIdle ==
    /\ pagination_init = 10
    /\ disabled = None
    /\ internal_limit = 10

----------------------------------------------------------------------------
(* Table orchestrator: use_table.rs *)

\* the focus ID the focus functions expose, CombinedFocus.id (use_focus_fn.rs
\* 339, use_table.rs 551)
current_id == get_fallbacked_id(focus_id)

\* paginated_data with the slice starting one row late
PaginatedDataFromNextRow ==
    LET start == pagination_offset + 1
        sum == start + pagination_limit
        end == IF sum < Len(row_ids) THEN sum ELSE Len(row_ids)
    IN  [i \in 1..(end - start) |->
            [id |-> row_ids[start + i],
             render_index |-> start + i - 1,
             local_index |-> i - 1]]

\* paginated_data (use_table.rs 366-374): the rows sorted_data[start..end],
\* each with its position in the page
paginated_data ==
    LET start == pagination_offset
        sum == start + pagination_limit
        end == IF sum < Len(row_ids) THEN sum ELSE Len(row_ids)
    IN  [i \in 1..(end - start) |->
            [id |-> row_ids[start + i],
             render_index |-> start + i - 1,
             local_index |-> i - 1]]

\* use_table rendered again with a record array of n records: the rows get
\* the default IDs (use_table.rs 248-250, 301-312), and a table created
\* without a limit pages by the new number of rows (357-361)
SetData(n) ==
    /\ row_ids' = [i \in 1..n |-> to_string(i - 1)]
    /\ disabled' = IF disabled # None THEN Some(n) ELSE None
    /\ last_call' = DirectCall("set_data")
    /\ UNCHANGED <<select_many, changeable, cancelable, on_change, select_init,
                   selected_ids, focus_init, focus_id, pagination_init,
                   internal_limit, focusFnVars, sortVars, debounceVars, scrollVars>>

\* the init of UseTableResult (use_table.rs 510-526): the pagination init
\* (522), the focus init (523) and the selection init (524); the sort init
\* is not called (512, 519-521)
TableInit ==
    /\ internal_limit' = pagination_init
    /\ focus_id' = IF focus_init # None THEN focus_init ELSE focus_id
    /\ selected_ids' = select_init
    /\ last_call' = DirectCall("table_init")
    /\ UNCHANGED <<selectConfig, pagination_init, disabled, focusFnVars, sortVars,
                   debounceVars, scrollVars>>

----------------------------------------------------------------------------
(* Virtual-scroll engine: components/render/use_virtual_scroll.rs           *)
(* Pixel values are whole numbers.  The debounce instance the hook creates  *)
(* (120) is private to it and its callback (208-210) is empty: nothing the  *)
(* hook returns reads it, and it is left out.                               *)

\* sample_content_height_px (use_virtual_scroll.rs 132-138): some positive
\* height of the map, else the default.  Every height the hook stores is the
\* default height (254), so the positive heights of the map are all the same.
sample_content_height_px ==
    LET positive == {i \in DOMAIN height_map : height_map[i] > 0}
    IN  IF positive = {} THEN default_content_height_px
        ELSE height_map[CHOOSE i \in positive : TRUE]

\* height_map.get(&index).copied().unwrap_or(sample_content_height_px)
ItemHeight(index) ==
    IF index \in DOMAIN height_map THEN height_map[index]
    ELSE sample_content_height_px

\* the accumulator loops (use_virtual_scroll.rs 146-154, 167-175): walk the
\* indices from index up to stop, adding an item while the accumulated
\* height is below limit_px; the result is accumulator.count
RECURSIVE AccumulatedCount(_, _, _, _, _)
AccumulatedCount(index, stop, px, counted, limit_px) ==
    IF index >= stop THEN counted
    ELSE IF px < limit_px
         THEN AccumulatedCount(index + 1, stop, px + ItemHeight(index),
                               counted + 1, limit_px)
         ELSE counted

\* view_offset (use_virtual_scroll.rs 141-157)
view_offset == AccumulatedCount(0, content_length, 0, 0, scrolled_px)

\* render_offset (use_virtual_scroll.rs 158): saturating_sub
render_offset == IF view_offset > over_scan THEN view_offset - over_scan ELSE 0

\* view_limit (use_virtual_scroll.rs 161-178): range_from(content_length
\* saturating_sub view_offset, view_offset) ends at content_length
view_limit ==
    AccumulatedCount(view_offset,
                     view_offset + (IF content_length > view_offset
                                    THEN content_length - view_offset ELSE 0),
                     0, 0, sample_content_height_px * 10)

\* render_limit (use_virtual_scroll.rs 179)
render_limit == view_limit + over_scan

\* data[from..to] with 0-based bounds
Slice(items, from, to) == SubSeq(items, from + 1, to)

\* get_virtualized_fn (use_virtual_scroll.rs 215-224)
get_virtualized(items) ==
    LET sum == render_offset + render_limit
        end_index == IF sum < Len(items) THEN sum ELSE Len(items)
    IN  IF render_offset < Len(items) THEN Slice(items, render_offset, end_index)
        ELSE << >>

\* get_virtualized_with_index_fn (use_virtual_scroll.rs 227-243)
get_virtualized_with_index(items) ==
    LET sum == render_offset + render_limit
        end_index == IF sum < Len(items) THEN sum ELSE Len(items)
        slice == Slice(items, render_offset, end_index)
    IN  IF render_offset < Len(items)
        THEN [i \in 1..Len(slice) |->
                 [get |-> slice[i], data_index |-> render_offset + (i - 1)]]
        ELSE << >>

\* the array of n items a caller passes: item number i is the value i
Items(n) == [i \in 1..n |-> i - 1]

NotVirtualized == [called |-> FALSE, len |-> 0, items |-> << >>, with_index |-> << >>]

\* set_offset_on_scroll (use_virtual_scroll.rs 199-212); the hook renders
\* again, and what the previous render returned is no longer current
SetOffsetOnScroll(scroll_top) ==
    /\ scrolled_px' = scroll_top
    /\ last_virtualized' = NotVirtualized
    /\ UNCHANGED <<content_length, over_scan, default_content_height_px, height_map,
                   selectVars, sortVars, debounceVars, focusFnVars, pageVars>>

\* set_render_cache(index)(element_id) (use_virtual_scroll.rs 246-261)
SetRenderCache(index, element_id) ==
    /\ height_map' =
          IF element_id # None
          THEN [i \in DOMAIN height_map \cup {index} |->
                   IF i = index THEN default_content_height_px ELSE height_map[i]]
          ELSE height_map
    /\ last_virtualized' = NotVirtualized
    /\ UNCHANGED <<content_length, over_scan, default_content_height_px, scrolled_px,
                   selectVars, sortVars, debounceVars, focusFnVars, pageVars>>

\* a call of get_virtualized and of get_virtualized_with_index with an array
\* of n items
GetVirtualized(n) ==
    /\ last_virtualized' = [called |-> TRUE, len |-> n,
                            items |-> get_virtualized(Items(n)),
                            with_index |-> get_virtualized_with_index(Items(n))]
    /\ UNCHANGED <<content_length, over_scan, default_content_height_px, height_map,
                   scrolled_px,
                   selectVars, sortVars, debounceVars, focusFnVars, pageVars>>

\* a virtual-scroll engine over no content
ScrollIdle ==
    /\ content_length = 0
    /\ over_scan = 0
    /\ default_content_height_px = 1
    /\ height_map = << >>
    /\ scrolled_px = 0
    /\ last_virtualized = NotVirtualized

----------------------------------------------------------------------------
(* Specification of the selection and focus engines *)

\* the sort engine before any data is given to it
SortIdle ==
    /\ data = << >>
    /\ sort_init = << >>
    /\ order_entries = << >>
    /\ last_sort = [op |-> "none", key |-> "", order |-> "none"]

\* the debounce utility before its first call
DebounceIdle ==
    /\ now = 0
    /\ count = 0
    /\ next_execution_time = None
    /\ pending_callback = None
    /\ tasks = {}
    /\ calls = 0
    /\ executed = << >>
    /\ superseded = {}

\* the rows use_table derives with the default get_data_id (use_table.rs
\* 248-250, 301-312): row n of sorted_data has the ID to_string(n)
DefaultRowIds(n) == [i \in 1..n |-> to_string(i - 1)]

InitSelect ==
    /\ select_many \in BOOLEAN
    /\ changeable \in BOOLEAN
    /\ cancelable \in BOOLEAN
    /\ on_change \in BOOLEAN
    /\ select_init \in SeqsUpTo({to_string(0)}, 1)
    /\ selected_ids = select_init
    /\ focus_init \in {None, Some(to_string(0))}
    /\ focus_id = focus_init
    /\ row_ids \in {DefaultRowIds(n) : n \in {MaxRows - 1, MaxRows}}
    /\ last_call = NoCall
    /\ SortIdle
    /\ DebounceIdle
    /\ FocusFnIdle
    /\ PageIdle
    /\ ScrollIdle

NextSelect ==
    \/ \E ids \in SeqsUpTo(Ids, MaxIdsLen) : \E veto \in Vetoes(ids) :
          SetIds(ids, veto)
    \/ \E id \in Ids, a \in BoolActions :
          \E veto \in Vetoes(SetByIdUpdater(id, a, selected_ids)) :
             SetById(id, a, veto)
    \/ \E veto \in Vetoes(<< >>) : UnsetAll(veto)
    \/ \E id \in Ids : ToggleById(id)
    \/ SelectInit
    \/ \E removed_ids \in SUBSET Ids :
          \E veto \in Vetoes(KeepSelectUpdater(removed_ids, selected_ids)) :
             KeepSelectByRemovedIds(removed_ids, veto)
    \/ \E next_id \in {None} \cup {Some(id) : id \in Ids},
          with_select \in {None} \cup {Some(a) : a \in BoolActions},
          veto \in BOOLEAN :
          /\ veto \in FocusVetoes(next_id, with_select)
          /\ FocusSetById(next_id, with_select, veto)
    \/ FocusInit

SpecSelect == InitSelect /\ [][NextSelect]_vars


----------------------------------------------------------------------------
(* Specification of the sort engine and of the rows derived from it *)

\* the selection and focus engines of a table nobody has touched, with the
\* defaults of use_table (use_table.rs 235-237, 336, 351)
SelectIdle ==
    /\ select_many = FALSE
    /\ changeable = TRUE
    /\ cancelable = FALSE
    /\ on_change = FALSE
    /\ select_init = << >>
    /\ selected_ids = << >>
    /\ focus_init = None
    /\ focus_id = None
    /\ row_ids = << >>
    /\ last_call = NoCall

\* the default_sort lists of the model: none, one column, two columns
InitSortStates ==
    {<< >>, << <<"a", "asc">> >>, << <<"b", "desc">>, <<"a", "asc">> >>}

InitSort ==
    /\ data \in SeqsUpTo(Records, MaxDataLen)
    /\ sort_init \in InitSortStates
    /\ order_entries = sort_init
    /\ last_sort = [op |-> "none", key |-> "", order |-> "none"]
    /\ SelectIdle
    /\ DebounceIdle
    /\ FocusFnIdle
    /\ PageIdle
    /\ ScrollIdle

NextSort ==
    \/ \E key \in Keys, a \in OrderActions : SetOrder(key, a)
    \/ \E key \in Keys, a \in OrderActions : SetOrderOnce(key, a)
    \/ \E key \in Keys, a \in IndexActions : ShiftOrder(key, a)
    \/ SortInit

SpecSort == InitSort /\ [][NextSort]_vars

----------------------------------------------------------------------------
(* Specification of the sort state alone: every operation of the sort engine *)
(* on the order_entries signal, set_order_map included, for a table whose    *)
(* record array is empty.  The rows are derived from the signal and are no   *)
(* part of the state, so the lists reached do not depend on the records.     *)

InitSortOrders ==
    /\ data = << >>
    /\ sort_init \in InitSortStates
    /\ order_entries = sort_init
    /\ last_sort = [op |-> "none", key |-> "", order |-> "none"]
    /\ SelectIdle
    /\ DebounceIdle
    /\ FocusFnIdle
    /\ PageIdle
    /\ ScrollIdle

NextSortOrders ==
    \/ \E key \in Keys, a \in OrderActions : SetOrder(key, a)
    \/ \E key \in Keys, a \in OrderActions : SetOrderOnce(key, a)
    \/ \E key \in Keys, a \in IndexActions : ShiftOrder(key, a)
    \/ \E a \in MapActions :
          \E next_orders \in SetOrderMapResults(order_entries, a) :
             SetOrderMap(a, next_orders)
    \/ SortInit

SpecSortOrders == InitSortOrders /\ [][NextSortOrders]_vars

----------------------------------------------------------------------------
(* Debounce utility: use_debounce.rs *)

\* the call whose timer is still running when the next call is made: the
\* latest call, if its task has not reached its wake-up time
SupersededByCall ==
    {t.id : t \in {u \in tasks : u.id = calls /\ now < u.wake}}

\* debounce_fn (use_debounce.rs 67-100).  The callback passed to call number
\* n is identified by n.  The call stores the callback and spawns a task that
\* sleeps delay_ms; it neither cancels nor touches the tasks spawned before.
Debounce ==
    /\ calls < MaxCalls
    /\ now + DelayMs <= MaxTime
    /\ LET next_count == count + 1
           callback == calls + 1
       IN  /\ count' = next_count
           /\ next_execution_time' = Some(now + DelayMs)
           /\ pending_callback' = Some([callback |-> callback, count |-> next_count])
           /\ tasks' = tasks \cup {[id |-> callback, wake |-> now + DelayMs]}
           /\ calls' = callback
           /\ superseded' = superseded \cup SupersededByCall
    /\ UNCHANGED <<now, executed, selectVars, sortVars, focusFnVars, pageVars, scrollVars>>

\* the body of a spawned task after its sleep (use_debounce.rs 89-97): it
\* takes whatever callback is pending at that moment and runs it
TaskWakes(t) ==
    /\ t \in tasks
    /\ t.wake <= now
    /\ tasks' = tasks \ {t}
    /\ IF pending_callback # None
       THEN /\ executed' = Append(executed,
                  [callback |-> pending_callback[1].callback,
                   debounced_count |-> pending_callback[1].count,
                   task |-> t.id,
                   since_latest_call |-> now - (next_execution_time[1] - DelayMs)])
            /\ pending_callback' = None
            /\ count' = 0
       ELSE UNCHANGED <<executed, pending_callback, count>>
    /\ UNCHANGED <<now, next_execution_time, calls, superseded, selectVars, sortVars, focusFnVars, pageVars, scrollVars>>

\* time passes (tokio::time::sleep wakes a task at or after its wake-up time)
Tick ==
    /\ now < MaxTime
    /\ now' = now + 1
    /\ UNCHANGED <<count, next_execution_time, pending_callback, tasks, calls,
                   executed, superseded, selectVars, sortVars, focusFnVars, pageVars, scrollVars>>

InitDebounce ==
    /\ DebounceIdle
    /\ FocusFnIdle
    /\ PageIdle
    /\ ScrollIdle
    /\ SelectIdle
    /\ SortIdle

NextDebounce ==
    \/ Debounce
    \/ \E t \in tasks : TaskWakes(t)
    \/ Tick

SpecDebounce == InitDebounce /\ [][NextDebounce]_vars

----------------------------------------------------------------------------
(* Specification of the pagination engine with the focus engine it pages     *)
(* through: a table of use_table without an on_select callback               *)

\* every SetStateAction<usize> a caller passes to set_page: the pages up to
\* MaxPage and the updater to the next page
PageActions ==
    {ValueAction(page, [i \in RenderIndices |-> i]) : page \in 0..MaxPage}
    \cup {FunctionAction(0, [i \in RenderIndices |-> i + 1])}

\* every SetStateAction<usize> a caller passes to set_by_render_index: the
\* indices up to one past the last row and the updater to the next index
RenderIndexActions ==
    {ValueAction(index, [i \in RenderIndices |-> i]) : index \in 0..MaxPageRows}
    \cup {FunctionAction(0, [i \in RenderIndices |-> i + 1])}

\* the <<fallback, molded>> options of the model: the defaults, the index
\* taken as it is, the index remembered as it is, the index molded and
\* remembered
RenderIndexOptions ==
    {<<None, None>>, <<None, Some(FALSE)>>, <<Some(TRUE), None>>,
     <<Some(TRUE), Some(TRUE)>>}

\* the updater |prev| prev - 1 a caller passes to step one row back, in a
\* build without overflow checks: the usize subtraction wraps around
StepBack == FunctionAction(0, [i \in RenderIndices |-> (i - 1) % (UsizeMax + 1)])

InitPage ==
    /\ select_many \in BOOLEAN
    /\ changeable = TRUE
    /\ cancelable = FALSE
    /\ on_change = FALSE
    /\ select_init = << >>
    /\ selected_ids = << >>
    /\ focus_init = None
    /\ focus_id = None
    /\ row_ids \in {DefaultRowIds(n) : n \in 0..MaxPageRows}
    /\ last_call = NoCall
    /\ fallback_render_index = 0
    /\ pagination_init \in 0..MaxLimit
    /\ disabled \in {None} \cup {Some(limit) : limit \in 0..MaxLimit}
    /\ internal_limit = pagination_init
    /\ SortIdle
    /\ DebounceIdle
    /\ ScrollIdle

\* a panic ends the program
Running == last_call.op # "panicked"

NextPage ==
    \/ Running /\ \E a \in PageActions : \E veto \in SetPageVetoes(a) : SetPage(a, veto)
    \/ Running /\ \E new_limit \in 0..MaxLimit : SetLimit(new_limit)
    \/ Running /\ PaginationInit
    \/ Running /\ \E a \in RenderIndexActions \cup {StepBack},
                     options \in RenderIndexOptions :
          \E veto \in FocusByRenderIndexVetoes(a, options[1], options[2], None) :
             /\ FocusSetByRenderIndex(a, options[1], options[2], veto)
             /\ fallback_render_index' <= MaxPageRows
    \/ Running /\ FocusSetByRenderIndexPanics

SpecPage == InitPage /\ [][NextPage]_vars

----------------------------------------------------------------------------
(* Specification of the virtual-scroll engine *)

InitScroll ==
    /\ content_length \in 0..MaxContentLength
    /\ over_scan \in 0..MaxOverScan
    /\ default_content_height_px \in 1..MaxHeightPx
    /\ height_map = << >>
    /\ scrolled_px = 0
    /\ last_virtualized = NotVirtualized
    /\ SelectIdle
    /\ SortIdle
    /\ DebounceIdle
    /\ FocusFnIdle
    /\ PageIdle

NextScroll ==
    \/ \E scroll_top \in 0..MaxScrollPx : SetOffsetOnScroll(scroll_top)
    \/ \E index \in 0..(MaxMeasured - 1), element_id \in {None, Some("row")} :
          SetRenderCache(index, element_id)
    \/ \E n \in {0, 1, content_length} : GetVirtualized(n)

SpecScroll == InitScroll /\ [][NextScroll]_vars

----------------------------------------------------------------------------
(* Specification of the selection of a table of three rows *)

\* the rows of a table of three records with the default get_data_id
ThreeRowIds == DefaultRowIds(1 + 1 + 1)

InitKeep ==
    /\ select_many \in BOOLEAN
    /\ changeable \in BOOLEAN
    /\ cancelable \in BOOLEAN
    /\ on_change \in BOOLEAN
    /\ select_init \in SeqsUpTo(Range(ThreeRowIds), 1)
    /\ selected_ids = select_init
    /\ focus_init = None
    /\ focus_id = None
    /\ row_ids = ThreeRowIds
    /\ last_call = NoCall
    /\ SortIdle
    /\ DebounceIdle
    /\ FocusFnIdle
    /\ PageIdle
    /\ ScrollIdle

NextKeep ==
    \/ \E ids \in SeqsUpTo(Range(ThreeRowIds), 1) : \E veto \in Vetoes(ids) :
          SetIds(ids, veto)
    \/ \E id \in Range(ThreeRowIds) : ToggleById(id)
    \/ SelectInit
    \/ \E removed_ids \in SUBSET Range(ThreeRowIds) :
          \E veto \in Vetoes(KeepSelectUpdater(removed_ids, selected_ids)) :
             KeepSelectByRemovedIds(removed_ids, veto)

SpecKeep == InitKeep /\ [][NextKeep]_vars

----------------------------------------------------------------------------
(* Specification of the table orchestrator: a table of use_table with the    *)
(* default get_data_id and without an on_select callback, whose record       *)
(* array changes length between renders                                      *)

\* the rows of a table of up to MaxTableRows records
TableRowIds == {DefaultRowIds(n) : n \in 0..MaxTableRows}

InitTable ==
    /\ select_many \in BOOLEAN
    /\ changeable = TRUE
    /\ cancelable = select_many
    /\ on_change = FALSE
    /\ select_init = << >>
    /\ selected_ids = select_init
    /\ focus_init \in {None, Some(to_string(0))}
    /\ focus_id = focus_init
    /\ row_ids \in TableRowIds
    /\ last_call = NoCall
    /\ fallback_render_index = 0
    /\ \/ pagination_init \in 0..MaxLimit /\ disabled = None
       \/ pagination_init = 10 /\ disabled = Some(Len(row_ids))
    /\ internal_limit = pagination_init
    /\ SortIdle
    /\ DebounceIdle
    /\ ScrollIdle

NextTable ==
    \/ \E n \in 0..MaxTableRows : SetData(n)
    \/ \E index \in 0..MaxTableRows, opt_fallback \in {None, Some(TRUE)} :
          FocusSetByRenderIndex(ValueAction(index, [i \in RenderIndices |-> i]),
                                opt_fallback, None, FALSE)
    \/ \E next_id \in {None} \cup {Some(to_string(i)) : i \in 0..(MaxTableRows - 1)} :
          FocusSetById(next_id, None, FALSE)
    \/ \E page \in 0..1 : SetPage(ValueAction(page, [i \in RenderIndices |-> i]), FALSE)
    \/ \E new_limit \in 0..MaxLimit : SetLimit(new_limit)
    \/ SetOrder("a", ValueAction("asc", OrderIdentity))
    \/ TableInit

SpecTable == InitTable /\ [][NextTable]_vars

----------------------------------------------------------------------------
(* Claims about the selection and focus engines, checked under SpecSelect *)

\* C1 (as claimed): when a focus set_by_id call forwards a selection update
\* and the selection engine returns default_prevented = true, the stored focus
\* ID after the call equals the stored focus ID before the call.
C1_FocusUnchangedWhenPrevented ==
    [][(/\ last_call'.op = "focus_by_id"
        /\ last_call'.forwarded
        /\ last_call'.default_prevented)
       => focus_id' = focus_id]_vars

\* C2 (as claimed): with changeable = false every set_ids, set_by_id and
\* unset_all call leaves the list of selected IDs unchanged.
C2_UnchangeableSelectionUnchanged ==
    [][(/\ ~changeable
        /\ last_call'.op \in {"set_ids", "set_by_id", "unset_all"})
       => selected_ids' = selected_ids]_vars

\* C3 (as claimed): with select_many = false and an initial selection of at
\* most one ID, the selection holds at most one ID in every reachable state.
C3_SingleSelectAtMostOne ==
    (~select_many /\ Len(select_init) <= 1) => Len(selected_ids) <= 1

\* what C4 says of a call: on_change ran before the commit; if it called
\* prevent_default the selection is unchanged and default_prevented = true is
\* returned, otherwise the next list is stored and default_prevented = false
\* is returned
OnChangeDecides ==
    /\ last_call'.invoked
    /\ last_call'.uncommitted_at_on_change
    /\ last_call'.prevent_default_called
         => (selected_ids' = selected_ids /\ last_call'.default_prevented)
    /\ ~last_call'.prevent_default_called
         => (last_call'.stored_next /\ ~last_call'.default_prevented)

\* C4 (as claimed): whenever an on_change callback is supplied and a set_ids or
\* set_by_id call computes a next selection different from the current one,
\* the callback is invoked before the commit and decides it.
C4_OnChangeAlwaysDecides ==
    [][(/\ on_change
        /\ last_call'.op \in {"set_ids", "set_by_id"}
        /\ last_call'.changed)
       => OnChangeDecides]_vars

\* C4 (amended): the same, for a selection engine created with
\* changeable = true.
C4_OnChangeDecidesWhenChangeable ==
    [][(/\ on_change
        /\ changeable
        /\ last_call'.op \in {"set_ids", "set_by_id"}
        /\ last_call'.changed)
       => OnChangeDecides]_vars

\* C4 witness: a set_by_id call whose on_change callback vetoed the change
C4_Witness ==
    /\ on_change
    /\ changeable
    /\ last_call.op = "set_by_id"
    /\ last_call.changed
    /\ last_call.invoked
    /\ last_call.default_prevented
    /\ selected_ids # << >>

\* the updater that toggles a selection flag
BoolToggle == FunctionAction(FALSE, [b \in BOOLEAN |-> ~b])

\* a call that asks to deselect the selected ID id: set_by_id(id)(false),
\* set_by_id(id)(toggle) or toggle_by_id(id)
AsksToDeselect(id) ==
    /\ Contains(selected_ids, id)
    /\ \/ \E veto \in BOOLEAN : SetById(id, ValueAction(FALSE, BoolIdentity), veto)
       \/ \E veto \in BOOLEAN : SetById(id, BoolToggle, veto)
       \/ ToggleById(id)

\* C22 (as claimed): when the selection engine is created with cancelable =
\* false, asking to deselect an ID that is currently selected, through
\* set_by_id(id)(false), set_by_id(id)(toggle) or toggle_by_id(id), leaves the
\* selection list unchanged.
C22_NotCancelableKeepsSelection ==
    [][(~cancelable /\ \E id \in Ids : AsksToDeselect(id))
       => selected_ids' = selected_ids]_vars

\* no ID occurs more than once in the list
DuplicateFree(ids) == \A i, j \in 1..Len(ids) : i # j => ids[i] # ids[j]

\* C25 (as claimed): the selection is an ordered set: in every state reachable
\* from a duplicate-free initial selection by any sequence of set_ids (with
\* arbitrary ID lists), set_by_id, toggle_by_id, unset_all and
\* keep_select_by_removed_ids calls, no ID occurs more than once in the
\* selected-ID list, and an ID newly selected through set_by_id or
\* toggle_by_id is at the front of the list.
C25_SelectionIsOrderedSet ==
    [][DuplicateFree(select_init) =>
          /\ DuplicateFree(selected_ids')
          /\ \A id \in Ids :
                (/\ last_call'.op \in {"set_by_id", "toggle_by_id"}
                 /\ ~Contains(selected_ids, id)
                 /\ Contains(selected_ids', id))
                => Head(selected_ids') = id]_vars

\* the first element of a list alone, the empty list for an empty list
FirstAlone(list) == IF Len(list) = 0 THEN << >> ELSE <<list[1]>>

\* C26: with select_many = false and a changeable selection with no vetoing
\* callback, set_ids(list) leaves the selection equal to the list's first
\* element alone (the empty selection for an empty list); set_ids([a, b, c])
\* results in exactly [a].
C26_SingleSelectSetIdsKeepsFirst ==
    [][(~select_many /\ changeable /\ last_call'.op = "set_ids") =>
          /\ SetSelectedIds(selected_ids, <<"a", "b", "c">>, FALSE).ids = <<"a">>
          /\ \A list \in SeqsUpTo(Ids, MaxIdsLen) :
                SetIds(list, FALSE) => selected_ids' = FirstAlone(list)]_vars

\* C26 witness: a single-select, changeable selection whose on_change callback
\* was consulted and did not veto stored one ID through set_ids
C26_Witness ==
    /\ ~select_many
    /\ changeable
    /\ last_call.op = "set_ids"
    /\ last_call.invoked
    /\ ~last_call.default_prevented
    /\ last_call.stored_next
    /\ Len(selected_ids) = 1

\* C27 (as claimed): with default options (with_select defaulting to
\* !select_many), focus set_by_id(x) for a non-null x in single-select mode
\* with a changeable, non-vetoing selection leaves both the focus ID equal to
\* x and the selection equal to [x]; in multi-select mode the same call sets
\* the focus ID to x and leaves the selection unchanged.
C27_FocusSetByIdDefaults ==
    [][(changeable /\ last_call'.op = "focus_by_id") =>
          \A x \in Ids :
              FocusSetById(Some(x), None, FALSE) =>
                  /\ focus_id' = Some(x)
                  /\ ~select_many => selected_ids' = <<x>>
                  /\ select_many => selected_ids' = selected_ids]_vars

----------------------------------------------------------------------------
(* Claims about the sort engine and the derived rows, checked under SpecSort *)

\* the entries whose order is not none, in list order
RECURSIVE ActiveEntries(_)
ActiveEntries(entries) ==
    IF entries = << >> THEN << >>
    ELSE IF Head(entries)[2] = "none" THEN ActiveEntries(Tail(entries))
    ELSE <<Head(entries)>> \o ActiveEntries(Tail(entries))

\* the comparison of two rows with the first entry as primary key: the first
\* entry that does not compare them Equal decides
RECURSIVE LexCompare(_, _, _)
LexCompare(entries, x, y) ==
    IF entries = << >> THEN "Equal"
    ELSE LET c == PassCompare(Head(entries)[1], Head(entries)[2], x, y)
         IN  IF c # "Equal" THEN c ELSE LexCompare(Tail(entries), x, y)

\* two rows compare Equal under every active comparator
TiedRows(x, y) ==
    \A e \in Range(ActiveEntries(order_entries)) :
        PassCompare(e[1], e[2], x, y) = "Equal"

\* C5 (as claimed): with two or more active entries the sort result is ordered
\* by the first entry's comparator first, each later entry ordering only the
\* records all earlier entries compare as equal.
C5_FirstEntryIsPrimary ==
    Len(ActiveEntries(order_entries)) >= 2 =>
        \A i, j \in 1..Len(sorted_with_index) :
            i < j => LexCompare(ActiveEntries(order_entries),
                                sorted_with_index[i], sorted_with_index[j])
                     # "Greater"

\* the index an ID string names
parse_index(id) == CHOOSE i \in 0..(Len(IndexStrings) - 1) : to_string(i) = id

\* C6 (as claimed): with the default get_data_id every row's ID is the
\* stringified index of its record in the caller's array, so whatever the sort
\* state, an ID denotes the record at that index of the caller's array.
C6_DefaultIdIsRawIndex ==
    \A i \in 1..Len(sorted_data) :
        /\ sorted_data[i].id = to_string(sorted_indices[i])
        /\ sorted_data[i].get = data[parse_index(sorted_data[i].id) + 1]

\* C9: for every non-empty sort state, two records that compare equal under
\* all active comparators appear in the sort result in the order they have in
\* the input array.
C9_SortIsStable ==
    order_entries # << >> =>
        \A i, j \in 1..Len(sorted_with_index) :
            (i < j /\ TiedRows(sorted_with_index[i], sorted_with_index[j]))
                => sorted_with_index[i].index < sorted_with_index[j].index

\* C9 witness: a desc entry is active, the sort moved records, and two
\* different records tie under all active comparators
C9_Witness ==
    /\ \E e \in Range(order_entries) : e[2] = "desc"
    /\ \E i \in 1..Len(sorted_indices) : sorted_indices[i] # i - 1
    /\ \E i, j \in 1..Len(sorted_with_index) :
          /\ i < j
          /\ sorted_with_index[i].data # sorted_with_index[j].data
          /\ TiedRows(sorted_with_index[i], sorted_with_index[j])

\* a set_order_once call that resolved to asc on a list of several entries
SetOrderOnceAscOnSeveral ==
    /\ last_sort'.op = "set_order_once"
    /\ last_sort'.order = "asc"
    /\ Len(order_entries) >= 2

\* C10 (as claimed): set_order_once(k, asc) on a sort state holding entries
\* for several columns leaves the list equal to exactly [(k, asc)].
C10_OnceLeavesSingleEntry ==
    [][SetOrderOnceAscOnSeveral
       => order_entries' = << <<last_sort'.key, "asc">> >>]_vars

\* C10 (amended): it leaves (k, asc) as the first entry and as the only entry
\* whose order is not none; the other keys stay in the list, in their previous
\* relative order, each with order none.
C10_OnceLeavesSingleActiveEntry ==
    [][SetOrderOnceAscOnSeveral
       => LET k == last_sort'.key
              others == OtherEntries(order_entries, k)
          IN  /\ order_entries'[1] = <<k, "asc">>
              /\ Len(order_entries') = 1 + Len(others)
              /\ \A i \in 1..Len(others) :
                    order_entries'[i + 1] = <<others[i][1], "none">>]_vars

\* C10 witness: a set_order_once call resolved to asc and the list holds three
\* entries, so it held at least two before the call
C10_Witness ==
    /\ last_sort.op = "set_order_once"
    /\ last_sort.order = "asc"
    /\ Len(order_entries) >= 3

----------------------------------------------------------------------------
(* Claims about the sort state, checked under SpecSortOrders *)

\* C11: in every state reachable from an initial sort state with pairwise
\* distinct keys by set_order, set_order_once, shift_order, set_order_map and
\* init calls, each column key appears at most once in the sort-state list.
C11_KeysAppearOnce ==
    \A i, j \in 1..Len(order_entries) :
        i # j => order_entries[i][1] # order_entries[j][1]

\* C11 witness: set_order_map stored a list of three entries, one per key
C11_Witness ==
    /\ last_sort.op = "set_order_map"
    /\ Len(order_entries) = 3
    /\ {order_entries[i][1] : i \in 1..Len(order_entries)} = Keys

\* the order a set_order(k) call is asked to store: the given value, or the
\* updater applied to k's order in prev, none if k has no entry
AskedOrder(prev, k, set_state_action) ==
    LET held == {prev[i][2] : i \in {n \in 1..Len(prev) : prev[n][1] = k}}
        prev_order == IF held = {} THEN "none" ELSE CHOOSE o \in held : TRUE
    IN  IF set_state_action.kind = "Value" THEN set_state_action.value
        ELSE set_state_action.func[prev_order]

\* rest holds exactly the entries of prev whose key is not k, each with its
\* order value, in the relative order they have in prev
OthersKept(prev, rest, k) ==
    LET others == {i \in 1..Len(prev) : prev[i][1] # k}
    IN  /\ Len(rest) = Cardinality(others)
        /\ \A i \in others : \E p \in 1..Len(rest) : rest[p] = prev[i]
        /\ \A i, j \in others :
              i < j => \E p, q \in 1..Len(rest) :
                          p < q /\ rest[p] = prev[i] /\ rest[q] = prev[j]

\* C12: after set_order(k, o) the sort-state list starts with (k, o), and
\* every other entry keeps its order value and its position relative to the
\* other entries.
C12_SetOrderUpsertsAtFront ==
    [][last_sort'.op = "set_order" =>
          \A a \in OrderActions :
              SetOrder(last_sort'.key, a) =>
                  /\ order_entries' # << >>
                  /\ Head(order_entries') =
                        <<last_sort'.key,
                          AskedOrder(order_entries, last_sort'.key, a)>>
                  /\ OthersKept(order_entries, Tail(order_entries'),
                                last_sort'.key)]_vars

\* C12 witness: a set_order call stored desc for its key in front of two
\* other entries
C12_Witness ==
    /\ last_sort.op = "set_order"
    /\ last_sort.order = "desc"
    /\ Len(order_entries) = 3
    /\ order_entries[1] = <<last_sort.key, "desc">>

\* the updater that advances the tri-state index by one
AdvanceByOne == FunctionAction(0, [i \in 0..(Len(ORDERS) - 1) |-> i + 1])

\* the order one shift_order call with AdvanceByOne stores for a key whose
\* order is o
ShiftedOnce(o) == ShiftUpdater(AdvanceByOne)[o]

\* C13: starting from none, three successive shift_order(k) calls that each
\* advance the index by one produce asc, then desc, then none; in general the
\* new order is the one at index (updater(previous index) mod 3) of
\* [none, asc, desc].
C13_ShiftOrderCycles ==
    [][last_sort'.op = "shift_order" =>
          /\ ShiftedOnce("none") = "asc"
          /\ ShiftedOnce(ShiftedOnce("none")) = "desc"
          /\ ShiftedOnce(ShiftedOnce(ShiftedOnce("none"))) = "none"
          /\ \A a \in IndexActions :
                ShiftOrder(last_sort'.key, a) =>
                    LET k == last_sort'.key
                        previous == AskedOrder(order_entries, k,
                                               FunctionAction("none", OrderIdentity))
                        previous_index ==
                            CHOOSE n \in 0..2 : <<"none", "asc", "desc">>[n + 1] = previous
                        updated == IF a.kind = "Value" THEN a.value
                                   ELSE a.func[previous_index]
                    IN  Head(order_entries') =
                            <<k, <<"none", "asc", "desc">>[(updated % 3) + 1]>>]_vars

\* C13 witness: a shift_order call wrapped the order of a key that held desc
\* back to none
C13_Witness ==
    /\ last_sort.op = "shift_order"
    /\ last_sort.order = "none"
    /\ Len(order_entries) >= 2
    /\ \E i \in 1..Len(order_entries) : order_entries[i][2] = "desc"

----------------------------------------------------------------------------
(* Claims about the pagination engine, checked under SpecPage *)

\* the render index set_page starts from: the one of the focused row, the
\* remembered fallback index if the focus ID resolves to no row
PreviousRenderIndex ==
    IF focused_render_index # None THEN focused_render_index[1]
    ELSE fallback_render_index

\* the ID of the row at a render index clamped into the valid range, none in
\* a table without rows
IdAtClamped(index) ==
    IF Len(row_ids) = 0 THEN None
    ELSE IF index < Len(row_ids) THEN Some(row_ids[index + 1])
    ELSE Some(row_ids[Len(row_ids)])

\* C14: set_page(p) changes no pagination state of its own: with limit > 0 it
\* asks the focus engine to focus render index p*limit + (previous render
\* index mod limit), clamped into the valid range, so that afterwards page = p
\* whenever that target index exists; with limit = 0 it requests index 0.
C14_SetPageGoesThroughFocus ==
    [][last_call'.op = "set_page" =>
          \A a \in PageActions :
              (a.kind = "Value" /\ SetPage(a, FALSE)) =>
                  LET p == a.value
                      limit == pagination_limit
                      target == IF limit > 0
                                THEN p * limit + (PreviousRenderIndex % limit)
                                ELSE 0
                  IN  /\ UNCHANGED pageVars
                      /\ pagination_limit' = limit
                      /\ focus_id' = IdAtClamped(target)
                      /\ (limit > 0 /\ target < Len(row_ids))
                            => pagination_page' = p]_vars

\* C14 witness: set_page moved the focus to the second row of page 1
C14_Witness ==
    /\ last_call.op = "set_page"
    /\ pagination_limit = 2
    /\ pagination_page = 1
    /\ focused_render_index = Some(3)

\* q is the floor of n / d, for d > 0
IsFloorOf(q, n, d) == q * d <= n /\ n < (q + 1) * d

\* C15: if limit > 0 then page = floor(focused render index / limit), offset
\* = page * limit and max_page(m) = floor(m / limit), an absent index counting
\* as 0; if limit = 0 then page = 0, offset = 0 and max_page(m) = 0 for every
\* m.  With limit 10 and focused render index 25, page = 2 and offset = 20.
C15_PageArithmetic ==
    LET limit == pagination_limit
        index == IF focused_render_index = None THEN 0 ELSE focused_render_index[1]
    IN  /\ PageOf(10, Some(25)) = 2
        /\ OffsetOf(10, Some(25)) = 20
        /\ limit > 0 =>
              /\ IsFloorOf(pagination_page, index, limit)
              /\ pagination_offset = pagination_page * limit
              /\ \A m \in 0..(MaxPageRows + MaxLimit) : IsFloorOf(max_page(m), m, limit)
        /\ limit = 0 =>
              /\ pagination_page = 0
              /\ pagination_offset = 0
              /\ \A m \in 0..(MaxPageRows + MaxLimit) : max_page(m) = 0

\* C15 witness: the focused row is the second row of page 1 of a table whose
\* last page is page 1
C15_Witness ==
    /\ pagination_limit = 2
    /\ focused_render_index = Some(3)
    /\ pagination_page = 1
    /\ pagination_offset = 2
    /\ max_page(Len(row_ids) - 1) = 1

\* C16: while a disabled limit is set, the limit, page and offset the
\* pagination engine exposes are the ones computed from it, and no set_limit
\* or init call changes them.
C16_DisabledLimitWins ==
    [][(disabled # None /\ last_call'.op \in {"set_limit", "pagination_init"}) =>
          /\ pagination_limit' = disabled[1]
          /\ pagination_page' = PageOf(disabled[1], focused_render_index)
          /\ pagination_offset' = OffsetOf(disabled[1], focused_render_index)
          /\ pagination_limit' = pagination_limit
          /\ pagination_page' = pagination_page
          /\ pagination_offset' = pagination_offset]_vars

\* C16 witness: set_limit stored an internal limit that differs from the
\* disabled limit and from the initial limit, with a focused row past row 0
C16_Witness ==
    /\ disabled # None
    /\ last_call.op = "set_limit"
    /\ internal_limit # disabled[1]
    /\ internal_limit # pagination_init
    /\ focused_render_index # None
    /\ focused_render_index # Some(0)

\* the raw index an action yields, as arithmetic on the integers: stepping
\* back from index 0 yields -1
IntegerRaw(set_state_action, prev) ==
    IF set_state_action = StepBack THEN prev - 1 ELSE ToValue(set_state_action, prev)

\* raw clamped into [0, m), 0 if m = 0
ClampedInto(raw, m) ==
    IF m = 0 THEN 0
    ELSE IF raw < 0 THEN 0
    ELSE IF raw < m - 1 THEN raw
    ELSE m - 1

\* the options of set_by_render_index under which molded is true
MoldedOptions == {<<None, None>>, <<Some(TRUE), Some(TRUE)>>}

\* C21 (as claimed): set_by_render_index with molded = true and
\* max_render_index = m focuses the record at render index min(raw, m - 1)
\* when m > 0 and at index 0 when m = 0, for every raw index the value or
\* updater yields (m = 10, raw = 15 gives 9); an updater that steps below
\* index 0 yields index 0.
C21_MoldedIndexIsClamped ==
    [][last_call'.op = "focus_by_render_index" =>
          /\ get_molded_index(0, 15, 10) = 9
          /\ \A a \in RenderIndexActions \cup {StepBack}, options \in MoldedOptions :
                FocusSetByRenderIndex(a, options[1], options[2], FALSE) =>
                    focus_id' =
                        get_id_from_render_index(
                            Some(ClampedInto(IntegerRaw(a, PreviousRenderIndex),
                                             max_render_index)))]_vars

----------------------------------------------------------------------------
(* Claims about the table orchestrator, checked under SpecTable *)

\* C23 (as claimed): whenever the stored focus ID resolves to no current
\* record, whether it is unset or set to an ID that no record has any more,
\* the focus ID the focus engine exposes is the ID of the record at the
\* remembered fallback render index (none if no record is at that index).
C23_UnresolvedFocusFallsBack ==
    get_render_index_from_id(focus_id) = None =>
        current_id = get_id_from_render_index(Some(fallback_render_index))

\* C24 (as claimed): after the table orchestrator's init() is called,
\* whatever setter calls were made before it, the sort-state list, the
\* selected IDs, the stored focus ID and the internal pagination limit all
\* equal the values they had when the orchestrator was constructed.
C24_InitRestoresConstruction ==
    [][last_call'.op = "table_init" =>
          /\ order_entries' = sort_init
          /\ selected_ids' = select_init
          /\ focus_id' = focus_init
          /\ internal_limit' = pagination_init]_vars

\* C28 (as claimed): in every reachable state of the table orchestrator
\* (including after data-length changes and after set_by_render_index with
\* fallback = true), if limit > 0 and the focus ID exposed to the view
\* resolves to a record, that record is on the current page: its render
\* index lies in [offset, offset + limit).
C28_ExposedFocusOnCurrentPage ==
    LET exposed_index == get_render_index_from_id(current_id)
    IN  (pagination_limit > 0 /\ exposed_index # None) =>
            /\ pagination_offset <= exposed_index[1]
            /\ exposed_index[1] < pagination_offset + pagination_limit

\* the smaller of two numbers
Smaller(x, y) == IF x < y THEN x ELSE y

\* C29: in every reachable state of the table orchestrator, for any data
\* length, limit and focus ID, the pagination offset is at most the number of
\* sorted rows (so taking the page slice never goes out of range), the page
\* is exactly the sorted rows with render index in
\* [offset, min(offset + limit, row count)), and every page row satisfies
\* render index = offset + local index.
C29_PageSliceInRange ==
    LET row_count == Len(row_ids)
        stop == Smaller(pagination_offset + pagination_limit, row_count)
        on_page == {r \in 0..(row_count - 1) : pagination_offset <= r /\ r < stop}
    IN  /\ pagination_offset <= row_count
        /\ pagination_offset <= stop
        /\ Len(paginated_data) = Cardinality(on_page)
        /\ \A r \in on_page :
              \E i \in 1..Len(paginated_data) :
                  /\ paginated_data[i].render_index = r
                  /\ paginated_data[i].id = row_ids[r + 1]
        /\ \A i \in 1..Len(paginated_data) :
              /\ paginated_data[i].local_index = i - 1
              /\ paginated_data[i].render_index
                    = pagination_offset + paginated_data[i].local_index

\* C29 witness: the focused row is the last row of a table of three rows
\* paged by two, so the page is the second one and holds that row alone
C29_Witness ==
    /\ Len(row_ids) = 3
    /\ pagination_limit = 2
    /\ focused_render_index = Some(2)
    /\ pagination_offset = 2
    /\ Len(paginated_data) = 1
    /\ paginated_data[1].id = row_ids[3]

----------------------------------------------------------------------------
(* Claims about the virtual-scroll engine, checked under SpecScroll *)

\* C17 (as claimed): when the engine is created with content_length = 0,
\* get_virtualized and its index-preserving variant return an empty list for
\* every input array, non-empty ones included, whatever over_scan is.
C17_NoContentNothingVirtualized ==
    (content_length = 0 /\ last_virtualized.called) =>
        /\ last_virtualized.items = << >>
        /\ last_virtualized.with_index = << >>

\* the cumulative height of the first k items
RECURSIVE PrefixHeight(_)
PrefixHeight(k) == IF k = 0 THEN 0 ELSE PrefixHeight(k - 1) + ItemHeight(k - 1)

\* C18 (as claimed): for every scroll offset and every assignment of item
\* heights, view_offset is the number of leading whole items whose cumulative
\* height is less than or equal to the scroll offset, capped at
\* content_length.
C18_ViewOffsetCountsWholeItems ==
    view_offset = Cardinality({k \in 1..content_length : PrefixHeight(k) <= scrolled_px})

\* C19 (as claimed): the slice get_virtualized returns contains all items of
\* the visible window [view_offset, view_offset + view_limit) together with
\* over_scan further items before the window and over_scan further items
\* after it, fewer on a side only where the data array begins or ends.
C19_OverScanOnBothSides ==
    last_virtualized.called =>
        \A i \in 0..(last_virtualized.len - 1) :
            (view_offset - over_scan <= i /\ i < view_offset + view_limit + over_scan)
                => i \in Range(last_virtualized.items)

----------------------------------------------------------------------------
(* Claims about the selection of a table of three rows, checked under SpecKeep *)

\* the render position, from 1, of the row with the given ID
RowPosition(id) == CHOOSE i \in 1..Len(row_ids) : row_ids[i] = id

\* the rows that remain, in render order, once the row at position pos is
\* removed
RemainingRows(pos) ==
    [j \in 1..(Len(row_ids) - 1) |-> IF j < pos THEN row_ids[j] ELSE row_ids[j + 1]]

\* a keep_select_by_removed_ids call, not vetoed, that removes the one
\* selected row
KeepRemovesTheSelectedRow ==
    /\ Len(row_ids) = 3
    /\ Len(selected_ids) = 1
    /\ KeepSelectByRemovedIds({selected_ids[1]}, FALSE)

\* C20 (as claimed): in a table of three rows with exactly one row selected,
\* keep_select_by_removed_ids([ID of the selected row]) leaves the selection
\* equal to [ID of the last row remaining in render order], for each of the
\* three positions the removed row may have.
C20_KeepSelectsLastRemaining ==
    [][KeepRemovesTheSelectedRow =>
          LET remaining == RemainingRows(RowPosition(selected_ids[1]))
          IN  selected_ids' = <<remaining[Len(remaining)]>>]_vars

\* C20 (amended): it leaves the selection equal to [ID of the remaining row
\* that takes the removed row's render position]: the row that followed the
\* removed one, and the last remaining row if the removed row was the last.
C20_KeepSelectsRowAtSamePosition ==
    [][KeepRemovesTheSelectedRow =>
          LET pos == RowPosition(selected_ids[1])
              remaining == RemainingRows(pos)
          IN  selected_ids' = <<IF pos <= Len(remaining) THEN remaining[pos]
                                ELSE remaining[Len(remaining)]>>]_vars

\* C20 witness: a keep_select_by_removed_ids call that was not vetoed changed
\* a selection of one row into the selection of the middle row, which is what
\* removing the selected first row or the selected last row leads to
C20_Witness ==
    /\ last_call.op = "keep_select_by_removed_ids"
    /\ last_call.changed
    /\ ~last_call.default_prevented
    /\ selected_ids = <<row_ids[2]>>
    /\ Len(row_ids) = 3

\* C30: after keep_select_by_removed_ids(R) in multi-select mode with a
\* changeable, non-vetoing selection and pairwise distinct row IDs, no ID in
\* R is selected, and every previously selected ID that is not in R and
\* belongs to a current row is still selected.
C30_KeepDropsRemovedKeepsSurvivors ==
    [][(select_many /\ changeable /\ last_call'.op = "keep_select_by_removed_ids") =>
          \A R \in SUBSET Range(row_ids) :
              KeepSelectByRemovedIds(R, FALSE) =>
                  /\ \A id \in R : ~Contains(selected_ids', id)
                  /\ \A i \in 1..Len(selected_ids) :
                        (selected_ids[i] \notin R /\ Contains(row_ids, selected_ids[i]))
                            => Contains(selected_ids', selected_ids[i])]_vars

\* C30 witness: in multi-select mode a keep_select_by_removed_ids call that
\* was not vetoed changed the selection and left two different rows selected:
\* a survivor and the neighbour of a removed row
C30_Witness ==
    /\ select_many
    /\ changeable
    /\ last_call.op = "keep_select_by_removed_ids"
    /\ last_call.changed
    /\ ~last_call.default_prevented
    /\ Len(selected_ids) = 2
    /\ selected_ids[1] # selected_ids[2]

----------------------------------------------------------------------------
(* Claims about the debounce utility, checked under SpecDebounce *)

\* C7 (as claimed): a callback runs only once the full delay has elapsed since
\* the most recent debounce call.
C7_RunsOnlyAfterFullDelay ==
    \A i \in 1..Len(executed) : executed[i].since_latest_call >= DelayMs

\* C8 (as claimed): calls supersede, they never stack: the callback of a call
\* that was followed by another call before its own timer expired never runs,
\* and no callback runs twice.
C8_SupersededNeverRun ==
    /\ \A i \in 1..Len(executed) : executed[i].callback \notin superseded
    /\ \A i, j \in 1..Len(executed) :
          i # j => executed[i].callback # executed[j].callback

====
